---------------------------- MODULE Spec2Model ----------------------------
(***************************************************************************)
(* Model of the law-reference extraction engine of src/main.py             *)
(* (class LawReferenceParser).                                             *)
(*                                                                         *)
(* A Python str is a sequence of characters.  The module is written in     *)
(* ASCII, so every Cyrillic letter is written with a Latin name:           *)
(*    a=U+0430  b=U+0431  v=U+0432  g=U+0433  d=U+0434  i=U+0438           *)
(*    k=U+043A  m=U+043C  n=U+043D  o=U+043E  p=U+043F  r=U+0440           *)
(*    s=U+0441  t=U+0442  u=U+0443  f=U+0444  ch=U+0447  soft=U+044C       *)
(*    ya=U+044F  e=U+0435                                                  *)
(* and the capital letters G K R F U P S for U+0413 U+041A U+0420 U+0424   *)
(* U+0423 U+041F U+0421.  "endash" is U+2013, "emdash" U+2014, "NL" the    *)
(* line feed U+000A, "laquo"/"raquo" the quotation marks U+00AB/U+00BB.    *)
(* None is the one-element sequence <<"None">>, which is no str.           *)
(***************************************************************************)
EXTENDS Integers, Sequences, FiniteSets, TLC

None == <<"None">>

\* ------------------------------------------------------------ characters
Digits == {"0", "1", "2", "3", "4", "5", "6", "7", "8", "9"}
LowerLetters == {"a", "b", "v", "g", "d", "i", "k", "m", "n", "o", "p", "r",
                 "s", "t", "u", "f", "ch", "soft", "ya", "e"}
UpperLetters == {"G", "K", "R", "F", "U", "P", "S"}
\* \w of Python's re on str: letters, digits, underscore
WordChars == LowerLetters \cup UpperLetters \cup Digits \cup {"_"}
\* \s
SpaceChars == {" ", "NL"}
\* [\x00-\x1f\x7f-\x9f]
ControlChars == {"NL"}

\* str.lower() of one character
LowerChar(c) ==
    CASE c = "G" -> "g" [] c = "K" -> "k" [] c = "R" -> "r" [] c = "F" -> "f"
      [] c = "U" -> "u" [] c = "P" -> "p" [] c = "S" -> "s" [] OTHER -> c

\* str.lower()
Lower(str) == [i \in 1..Len(str) |-> LowerChar(str[i])]

\* s[a:b] with 0-based half-open Python slice bounds
Slice(str, a, b) == IF b <= a THEN <<>> ELSE SubSeq(str, a + 1, b)

RECURSIVE ConcatRange(_, _, _)
\* parts[a] \o ... \o parts[b], by halves
ConcatRange(parts, a, b) ==
    IF a > b THEN <<>>
    ELSE IF a = b THEN parts[a]
    ELSE ConcatRange(parts, a, (a + b) \div 2)
         \o ConcatRange(parts, (a + b) \div 2 + 1, b)

\* ''.join(parts)
Concat(parts) == ConcatRange(parts, 1, Len(parts))

RECURSIVE JoinWith(_, _)
\* sep.join(parts)
JoinWith(sep, parts) ==
    IF Len(parts) = 0 THEN <<>>
    ELSE IF Len(parts) = 1 THEN Head(parts)
    ELSE Head(parts) \o sep \o JoinWith(sep, Tail(parts))

RECURSIVE LStrip(_)
LStrip(str) ==
    IF Len(str) > 0 /\ Head(str) \in SpaceChars THEN LStrip(Tail(str)) ELSE str

RECURSIVE RStrip(_)
RStrip(str) ==
    IF Len(str) > 0 /\ str[Len(str)] \in SpaceChars
    THEN RStrip(SubSeq(str, 1, Len(str) - 1)) ELSE str

\* str.strip()
Strip(str) == RStrip(LStrip(str))

\* ------------------------------------------------------ regular expressions
\* A pattern is a tree of nodes; the matcher below is the backtracking
\* matcher of Python's re: alternatives in order, greedy repeats longest
\* first, lazy repeats shortest first, the first success wins.
Ch(S) == [t |-> "set", s |-> S]
NotCh(S) == [t |-> "nset", s |-> S]
Cat(rs) == [t |-> "seq", r |-> rs]
Alt(rs) == [t |-> "alt", r |-> rs]
Star(r) == [t |-> "star", r |-> r]
LazyStar(r) == [t |-> "lstar", r |-> r]
Plus(r) == Cat(<<r, Star(r)>>)
LazyPlus(r) == Cat(<<r, LazyStar(r)>>)
Eps == Cat(<<>>)
Opt(r) == Alt(<<r, Eps>>)
Grp(k, r) == [t |-> "grp", k |-> k, r |-> r]
WordBoundary == [t |-> "wb"]
Bos == [t |-> "bos"]
Eos == [t |-> "eos"]
Lit(str) == [t |-> "lit", s |-> str]

NoMatch == [ok |-> FALSE]

RECURSIVE PushAll(_, _, _)
\* the continuation that runs rs[1..n] and then k
PushAll(rs, n, k) == IF n = 0 THEN k ELSE PushAll(rs, n - 1, <<rs[n], k>>)

\* \b at 0-based position i of str
AtWordBoundary(str, i) ==
    LET before == i >= 1 /\ str[i] \in WordChars
        after == i < Len(str) /\ str[i + 1] \in WordChars
    IN before # after

\* the first of two attempts that succeeds (the second is not tried then)
OrElse(first, second) == IF first.ok THEN first ELSE second

\* does the character c match the class r (a set or its complement)?
Takes(r, ic, c) ==
    IF r.t = "set" THEN c \in r.s \/ (ic /\ LowerChar(c) \in r.s)
    ELSE c \notin r.s /\ (~ic \/ LowerChar(c) \notin r.s)

\* does str hold the literal lit at the 0-based position i?
HoldsAt(str, ic, lit, i) ==
    /\ i + Len(lit) <= Len(str)
    /\ \A q \in 1..Len(lit) :
          str[i + q] = lit[q] \/ (ic /\ LowerChar(str[i + q]) = lit[q])

\* how many characters of the class r follow the 0-based position i
RunLength(str, ic, r, i) ==
    CHOOSE l \in 0..(Len(str) - i) :
        /\ \A q \in 1..l : Takes(r, ic, str[i + q])
        /\ l = Len(str) - i \/ ~Takes(r, ic, str[i + l + 1])

RECURSIVE Run(_, _, _, _, _)
RECURSIVE RunAlt(_, _, _, _, _, _, _)
RECURSIVE Longest(_, _, _, _, _, _, _)
RECURSIVE Shortest(_, _, _, _, _, _, _)
\* Match the continuation k (<<>> or <<node, continuation>>) against str from
\* the 0-based position i.  ic is re.IGNORECASE.  caps[g] is the span of
\* group g, <<-1, -1>> while the group has not taken part.
Run(str, ic, k, i, caps) ==
    IF Len(k) = 0 THEN [ok |-> TRUE, end |-> i, caps |-> caps]
    ELSE LET n == k[1]
             rest == k[2]
         IN CASE n.t \in {"set", "nset"} ->
                   IF i < Len(str) /\ Takes(n, ic, str[i + 1])
                   THEN Run(str, ic, rest, i + 1, caps) ELSE NoMatch
              [] n.t = "lit" ->
                   IF HoldsAt(str, ic, n.s, i)
                   THEN Run(str, ic, rest, i + Len(n.s), caps) ELSE NoMatch
              [] n.t = "seq" ->
                   Run(str, ic, PushAll(n.r, Len(n.r), rest), i, caps)
              [] n.t = "alt" -> RunAlt(str, ic, n.r, 1, rest, i, caps)
              [] n.t = "star" ->
                   IF n.r.t \in {"set", "nset"}
                   THEN Longest(str, ic, rest, i, caps, 0,
                                RunLength(str, ic, n.r, i))
                   ELSE OrElse(Run(str, ic, <<n.r, <<n, rest>>>>, i, caps),
                               Run(str, ic, rest, i, caps))
              [] n.t = "lstar" ->
                   IF n.r.t \in {"set", "nset"}
                   THEN Shortest(str, ic, rest, i, caps, 0,
                                 RunLength(str, ic, n.r, i))
                   ELSE OrElse(Run(str, ic, rest, i, caps),
                               Run(str, ic, <<n.r, <<n, rest>>>>, i, caps))
              [] n.t = "grp" ->
                   Run(str, ic,
                       <<n.r, <<[t |-> "close", k |-> n.k, from |-> i], rest>>>>,
                       i, caps)
              [] n.t = "close" ->
                   Run(str, ic, rest, i, [caps EXCEPT ![n.k] = <<n.from, i>>])
              [] n.t = "wb" ->
                   IF AtWordBoundary(str, i)
                   THEN Run(str, ic, rest, i, caps) ELSE NoMatch
              [] n.t = "bos" ->
                   IF i = 0 THEN Run(str, ic, rest, i, caps) ELSE NoMatch
              [] n.t = "eos" ->
                   IF i = Len(str) THEN Run(str, ic, rest, i, caps) ELSE NoMatch
              [] n.t = "advance" ->
                   IF i > n.from THEN Run(str, ic, rest, i, caps) ELSE NoMatch

\* a greedy repeat of a character class that can take a..b characters: the
\* longest repeat after which rest matches, looked for by halves
Longest(str, ic, rest, i, caps, a, b) ==
    IF a = b THEN Run(str, ic, rest, i + a, caps)
    ELSE OrElse(Longest(str, ic, rest, i, caps, (a + b) \div 2 + 1, b),
                Longest(str, ic, rest, i, caps, a, (a + b) \div 2))

\* a lazy repeat of a character class: the shortest repeat
Shortest(str, ic, rest, i, caps, a, b) ==
    IF a = b THEN Run(str, ic, rest, i + a, caps)
    ELSE OrElse(Shortest(str, ic, rest, i, caps, a, (a + b) \div 2),
                Shortest(str, ic, rest, i, caps, (a + b) \div 2 + 1, b))

RunAlt(str, ic, alts, j, rest, i, caps) ==
    IF j > Len(alts) THEN NoMatch
    ELSE OrElse(Run(str, ic, <<alts[j], rest>>, i, caps),
                RunAlt(str, ic, alts, j + 1, rest, i, caps))

\* a compiled pattern: its tree, its number of groups, its flags
Compile(tree, groups, ic) == [re |-> tree, groups |-> groups, ic |-> ic]

NoCaps(pat) == [g \in 1..pat.groups |-> <<-1, -1>>]

\* the match object of a successful run from pos
MatchFrom(pos, r) ==
    IF r.ok THEN [ok |-> TRUE, start |-> pos, end |-> r.end, caps |-> r.caps]
    ELSE NoMatch

\* Pattern.match(str, pos) without the search: the match that starts at pos.
\* must_advance refuses the empty match at pos (the scanner sets it after an
\* empty match).
MatchAt(pat, str, pos, must_advance) ==
    MatchFrom(pos,
        Run(str, pat.ic,
            IF must_advance
            THEN <<pat.re, <<[t |-> "advance", from |-> pos], <<>>>>>>
            ELSE <<pat.re, <<>>>>,
            pos, NoCaps(pat)))

RECURSIVE SearchIn(_, _, _, _, _, _)
\* the leftmost match that starts in a..b, looked for by halves; the empty
\* match is refused at pos alone
SearchIn(pat, str, pos, must_advance, a, b) ==
    IF a = b THEN MatchAt(pat, str, a, must_advance /\ a = pos)
    ELSE OrElse(SearchIn(pat, str, pos, must_advance, a, (a + b) \div 2),
                SearchIn(pat, str, pos, must_advance, (a + b) \div 2 + 1, b))

\* Pattern.search(str, pos): the leftmost match at or after pos
Search(pat, str, pos, must_advance) ==
    IF pos > Len(str) THEN NoMatch
    ELSE SearchIn(pat, str, pos, must_advance, pos, Len(str))

\* the scanner of finditer before its first search
ScanStart(pos, must_advance) ==
    [ms |-> <<>>, pos |-> pos, must_advance |-> must_advance, more |-> TRUE]

\* the scanner after a search: the match is yielded and the next search
\* starts at its end, or the scan is over
Yielded(sc, m) ==
    IF ~m.ok THEN [sc EXCEPT !.more = FALSE]
    ELSE [ms |-> Append(sc.ms, m), pos |-> m.end,
          must_advance |-> (m.end = m.start), more |-> TRUE]

\* one search of the scanner
NextMatch(pat, str, sc) ==
    Yielded(sc, Search(pat, str, sc.pos, sc.must_advance))

RECURSIVE Searches(_, _, _, _)
\* the scanner after at most n searches, by halves
Searches(pat, str, n, sc) ==
    IF n = 0 \/ ~sc.more THEN sc
    ELSE IF n = 1 THEN NextMatch(pat, str, sc)
    ELSE Searches(pat, str, n - n \div 2, Searches(pat, str, n \div 2, sc))

\* the matches finditer yields, left to right, non-overlapping: a position
\* gives at most an empty match and a match that advances
AllMatches(pat, str, pos, must_advance) ==
    Searches(pat, str, 2 * (Len(str) + 1) + 1, ScanStart(pos, must_advance)).ms

\* match.group(g): None for a group that did not take part
Group(str, m, g) ==
    IF g = 0 THEN Slice(str, m.start, m.end)
    ELSE IF m.caps[g][1] < 0 THEN None
    ELSE Slice(str, m.caps[g][1], m.caps[g][2])

\* the matched substrings of the matches ms
MatchedTexts(str, ms) == [j \in 1..Len(ms) |-> Group(str, ms[j], 0)]

\* re.findall for a pattern without groups
FindAll(pat, str) == MatchedTexts(str, AllMatches(pat, str, 0, FALSE))

\* str with every match of ms replaced by repl
Replaced(str, ms, repl) ==
    Concat([j \in 1..Len(ms) |->
              Slice(str, IF j = 1 THEN 0 ELSE ms[j - 1].end, ms[j].start) \o repl])
    \o Slice(str, IF Len(ms) = 0 THEN 0 ELSE ms[Len(ms)].end, Len(str))

\* re.sub with a constant replacement
Sub(pat, repl, str) == Replaced(str, AllMatches(pat, str, 0, FALSE), repl)

\* the pieces of str between the matches ms
Pieces(str, ms) ==
    [j \in 1..(Len(ms) + 1) |->
       Slice(str, IF j = 1 THEN 0 ELSE ms[j - 1].end,
                  IF j > Len(ms) THEN Len(str) ELSE ms[j].start)]

\* re.split for a pattern without groups
Split(pat, str) == Pieces(str, AllMatches(pat, str, 0, FALSE))

\* re.match(pattern, str) is not None
Matches(pat, str) == MatchAt(pat, str, 0, FALSE).ok

\* ------------------------------------------------------------- exceptions
\* The outcome of a Python call: a value, or an exception in flight.
Ok(v) == [raised |-> FALSE, val |-> v]
Raised == [raised |-> TRUE]

\* ------------------------------------------------------------ int and str
DigitVal(c) ==
    CASE c = "0" -> 0 [] c = "1" -> 1 [] c = "2" -> 2 [] c = "3" -> 3
      [] c = "4" -> 4 [] c = "5" -> 5 [] c = "6" -> 6 [] c = "7" -> 7
      [] c = "8" -> 8 [] c = "9" -> 9

DigitChar(d) ==
    CASE d = 0 -> "0" [] d = 1 -> "1" [] d = 2 -> "2" [] d = 3 -> "3"
      [] d = 4 -> "4" [] d = 5 -> "5" [] d = 6 -> "6" [] d = 7 -> "7"
      [] d = 8 -> "8" [] d = 9 -> "9"

RECURSIVE StrToInt(_)
\* int(str) of a string of decimal digits
StrToInt(str) ==
    IF Len(str) = 0 THEN 0
    ELSE 10 * StrToInt(SubSeq(str, 1, Len(str) - 1)) + DigitVal(str[Len(str)])

RECURSIVE IntToStr(_)
\* str(n) of a natural number
IntToStr(n) ==
    IF n < 10 THEN <<DigitChar(n)>>
    ELSE IntToStr(n \div 10) \o <<DigitChar(n % 10)>>

\* -------------------------------------------------------------- lemmatizer
\* pymorphy3's MorphAnalyzer is an external capability.  Its normal form is
\* modelled on the words of the model's texts: the normal form is in lower
\* case, and the inflected forms of the lexicon are reduced to their lemma.
Lexicon == {<< <<"k", "o", "d", "e", "k", "s", "a">>,
               <<"k", "o", "d", "e", "k", "s">> >>}

normal_form(word) ==
    LET w == Lower(word)
    IN IF \E e \in Lexicon : e[1] = w
       THEN (CHOOSE e \in Lexicon : e[1] = w)[2]
       ELSE w

\* self.morph.parse(word)[0].normal_form: raises on the words of morph_fail
morph_parse(morph_fail, word) ==
    IF word \in morph_fail THEN Raised ELSE Ok(normal_form(word))

\* except Exception: the word itself when the lemmatizer raised
word_on_failure(word, parsed) ==
    IF parsed.raised THEN Ok(word) ELSE Ok(parsed.val)

\* the try/except around the lemmatization of one word
lemmatize_word(morph_fail, word) ==
    word_on_failure(word, morph_parse(morph_fail, word))

ReWord == Compile(Plus(Ch(WordChars)), 0, FALSE)

\* ' '.join of the lemmas of the words
join_normalized_words(morph_fail, words) ==
    JoinWith(<<" ">>,
             [j \in 1..Len(words) |-> lemmatize_word(morph_fail, words[j]).val])

normalize_law_name(morph_fail, text) ==
    IF Len(text) = 0 THEN <<>>
    ELSE join_normalized_words(morph_fail, FindAll(ReWord, Strip(Lower(text))))

\* ---------------------------------------------------- abbreviation folding
Sp == Ch(SpaceChars)
W == Ch(WordChars)
Word_pp == <<"p", "p">>
Abbr_pp == <<"p", "p", ".">>
Abbr_p == <<"p", ".">>
Abbr_st == <<"s", "t", ".">>
Abbr_ch == <<"ch", ".">>
Word_punkt == <<"p", "u", "n", "k", "t">>
Word_punt == <<"p", "u", "n", "t">>
Word_podpunkt == <<"p", "o", "d", "p", "u", "n", "k", "t">>
Word_stat == <<"s", "t", "a", "t", "soft">>
Word_statya == <<"s", "t", "a", "t", "soft", "ya">>
Word_chast == <<"ch", "a", "s", "t", "soft">>

\* fault model: the words beginning with "podpunkt" are folded to "podpp.",
\* the abbreviation the first rule reads
replacements_to_podpp ==
    << <<Cat(<<WordBoundary, Lit(<<"p", "o", "d", "p", "p", ".">>)>>), Abbr_pp>>,
       <<Cat(<<WordBoundary, Lit(Word_punkt), Star(W), WordBoundary>>), Abbr_p>>,
       <<Cat(<<WordBoundary, Lit(Word_punt), Star(W), WordBoundary>>), Abbr_p>>,
       <<Cat(<<WordBoundary, Lit(Word_podpunkt), Star(W), WordBoundary>>),
         <<"p", "o", "d", "p", "p", ".">>>>,
       <<Cat(<<WordBoundary, Lit(Word_stat), Plus(W), WordBoundary>>), Abbr_st>>,
       <<Cat(<<WordBoundary, Lit(Word_chast), Star(W), WordBoundary>>), Abbr_ch>> >>

\* the ordered (pattern, replacement) list of normalize_text_references
replacements ==
    << <<Cat(<<WordBoundary, Lit(<<"p", "o", "d", "p", "p", ".">>)>>), Abbr_pp>>,
       <<Cat(<<WordBoundary, Lit(Word_punkt), Star(W), WordBoundary>>), Abbr_p>>,
       <<Cat(<<WordBoundary, Lit(Word_punt), Star(W), WordBoundary>>), Abbr_p>>,
       <<Cat(<<WordBoundary, Lit(Word_podpunkt), Star(W), WordBoundary>>), Abbr_pp>>,
       <<Cat(<<WordBoundary, Lit(Word_stat), Plus(W), WordBoundary>>), Abbr_st>>,
       <<Cat(<<WordBoundary, Lit(Word_chast), Star(W), WordBoundary>>), Abbr_ch>> >>

RECURSIVE ApplyReplacements(_, _, _)
ApplyReplacements(rules, j, text) ==
    IF j > Len(rules) THEN text
    ELSE ApplyReplacements(rules, j + 1,
             Sub(Compile(rules[j][1], 0, TRUE), rules[j][2], text))

normalize_text_references(text) == ApplyReplacements(replacements, 1, text)

ReToken == Compile(Alt(<<Plus(W), Plus(NotCh(WordChars))>>), 0, FALSE)
ReWholeWord == Compile(Cat(<<Bos, Plus(W), Eos>>), 0, FALSE)

\* one iteration of the token loop of lemmatize_full_text
lemmatize_token(morph_fail, token) ==
    IF Matches(ReWholeWord, token) THEN lemmatize_word(morph_fail, token)
    ELSE Ok(token)

\* ''.join(lemmatized_tokens), unless an iteration raised
join_tokens(lemmatized_tokens) ==
    IF \E j \in 1..Len(lemmatized_tokens) : lemmatized_tokens[j].raised
    THEN Raised
    ELSE Ok(Concat([j \in 1..Len(lemmatized_tokens) |-> lemmatized_tokens[j].val]))

\* the token loop of lemmatize_full_text
lemmatize_tokens(morph_fail, tokens) ==
    join_tokens([j \in 1..Len(tokens) |-> lemmatize_token(morph_fail, tokens[j])])

lemmatize_full_text(morph_fail, text) ==
    lemmatize_tokens(morph_fail, FindAll(ReToken, normalize_text_references(text)))

\* re.sub(r'[\x00-\x1f\x7f-\x9f]', '', text)
strip_control(text) == Sub(Compile(Ch(ControlChars), 0, FALSE), <<>>, text)

\* ----------------------------------------------------------------- patterns
\* [\d]+(?:[\.\-–][\d]+)*
article_pattern ==
    Cat(<<Plus(Ch(Digits)),
          Star(Cat(<<Ch({".", "-", "endash"}), Plus(Ch(Digits))>>))>>)

\* [^,\s]+(?:\s*[i,]\s*[^,\s]+)*
values_pattern ==
    LET val == Plus(NotCh({","} \cup SpaceChars))
    IN Cat(<<val, Star(Cat(<<Star(Sp), Ch({"i", ","}), Star(Sp), val>>))>>)

\* the alternation of the re.escape'd names
NamesAlt(law_names_pattern) ==
    Alt([j \in 1..Len(law_names_pattern) |-> Lit(law_names_pattern[j])])

pattern1(law_names_pattern) ==
    Compile(
      Cat(<<Opt(Cat(<<Lit(Abbr_pp), Star(Sp), Grp(1, values_pattern)>>)), Star(Sp),
            Opt(Cat(<<Lit(Abbr_p), Star(Sp), Grp(2, values_pattern)>>)), Star(Sp),
            Opt(Cat(<<Lit(Abbr_st), Star(Sp), Grp(3, article_pattern)>>)), Star(Sp),
            Star(Sp), Grp(4, NamesAlt(law_names_pattern)), WordBoundary>>),
      4, TRUE)

pattern2(law_names_pattern) ==
    Compile(
      Cat(<<Lit(Abbr_st), Star(Sp),
            Grp(1, LazyPlus(Ch(Digits \cup SpaceChars
                                \cup {",", ".", "-", "endash", "i"}))),
            Plus(Sp), Grp(2, NamesAlt(law_names_pattern)), WordBoundary>>),
      2, TRUE)

pattern3(law_names_pattern) ==
    Compile(
      Cat(<<Lit(Abbr_st), Star(Sp), Grp(1, article_pattern), Star(Sp),
            Star(Sp), Grp(2, NamesAlt(law_names_pattern)), WordBoundary>>),
      2, TRUE)

\* self.patterns: the (pattern, pattern_type) list.  A compiled pattern is
\* kept as its source, the template's name and the alternation it was built
\* with; Regex gives the compiled form.
build_patterns(law_names_pattern) ==
    << [pattern_type |-> "pattern1", names |-> law_names_pattern],
       [pattern_type |-> "pattern2", names |-> law_names_pattern],
       [pattern_type |-> "pattern3", names |-> law_names_pattern] >>

Regex(p) ==
    CASE p.pattern_type = "pattern1" -> pattern1(p.names)
      [] p.pattern_type = "pattern2" -> pattern2(p.names)
      [] p.pattern_type = "pattern3" -> pattern3(p.names)

\* ------------------------------------------------------ reference building
LawLink(law_id, article, point_article, subpoint_article) ==
    [law_id |-> law_id, article |-> article, point_article |-> point_article,
     subpoint_article |-> subpoint_article]

\* \b(?:p|punkt|st|statya|pp|podpunkt|ch|chast)\b\.?\s*
ReLabel ==
    Compile(Cat(<<WordBoundary,
                  Alt(<<Lit(<<"p">>), Lit(Word_punkt), Lit(<<"s", "t">>),
                        Lit(Word_statya), Lit(Word_pp), Lit(Word_podpunkt),
                        Lit(<<"ch">>), Lit(Word_chast)>>),
                  WordBoundary, Opt(Ch({"."})), Star(Sp)>>), 0, TRUE)

\* [^\w\s\.\-–—]
ReJunk ==
    Compile(NotCh(WordChars \cup SpaceChars \cup {".", "-", "endash", "emdash"}),
            0, FALSE)

\* component if component else None
or_none(component) == IF Len(component) > 0 THEN component ELSE None

clean_component(component) ==
    IF component = None \/ Len(component) = 0 THEN None
    ELSE or_none(Strip(Sub(ReJunk, <<>>, Sub(ReLabel, <<>>, component))))

ReArticle == Compile(article_pattern, 0, FALSE)

\* [art.strip() for art in articles if art.strip()]
stripped_articles(articles) ==
    SelectSeq([j \in 1..Len(articles) |-> Strip(articles[j])],
              LAMBDA art : Len(art) > 0)

\* fault model: the article capture is taken as one article
single_article(articles_text) ==
    IF articles_text = None \/ Len(articles_text) = 0 THEN <<>>
    ELSE <<Strip(articles_text)>>

parse_multiple_articles(articles_text) ==
    IF articles_text = None \/ Len(articles_text) = 0 THEN <<>>
    ELSE stripped_articles(FindAll(ReArticle, articles_text))

\* [,i;\s]+
ReSeparators == Compile(Plus(Ch({",", "i", ";"} \cup SpaceChars)), 0, FALSE)
\* ^\d+\s*-\s*\d+$
ReRange ==
    Compile(Cat(<<Bos, Plus(Ch(Digits)), Star(Sp), Ch({"-"}), Star(Sp),
                  Plus(Ch(Digits)), Eos>>), 0, FALSE)
\* \s*-\s*
ReDash == Compile(Cat(<<Star(Sp), Ch({"-"}), Star(Sp)>>), 0, FALSE)
\* ^[a-ya]$ with re.IGNORECASE (the Latin a-z has no letter in the model)
ReLetter == Compile(Cat(<<Bos, Ch(LowerLetters), Eos>>), 0, TRUE)

\* [str(i) for i in range(start, end + 1)]
number_range(start, end) ==
    [j \in 1..(IF end >= start THEN end + 1 - start ELSE 0) |->
       IntToStr(start + j - 1)]

\* the range branch: int() of the two parts, then the numbers between them
expand_range(range_parts) ==
    number_range(StrToInt(range_parts[1]), StrToInt(range_parts[2]))

\* what one non-empty, stripped piece appends to cleaned_components
expand_stripped(comp) ==
    IF Len(comp) = 0 \/ comp \in {<<"i">>, <<",">>, <<";">>} THEN <<>>
    ELSE IF Matches(ReRange, comp) THEN expand_range(Split(ReDash, comp))
    ELSE IF Matches(ReLetter, comp) THEN <<Lower(comp)>>
    ELSE <<comp>>

\* the body of the component loop of parse_multiple_components
expand_component(piece) == expand_stripped(Strip(piece))

\* the component loop of parse_multiple_components
expand_components(components) ==
    Concat([j \in 1..Len(components) |-> expand_component(components[j])])

\* re.split on the cleaned component; TypeError when cleaning left None
split_cleaned(cleaned) ==
    IF cleaned = None THEN Raised
    ELSE Ok(expand_components(Split(ReSeparators, cleaned)))

parse_multiple_components(component) ==
    IF component = None \/ Len(component) = 0 THEN Ok(<<>>)
    ELSE split_cleaned(clean_component(component))

\* the captures parse_reference reads from a match of the given pattern
Captures(pattern_type, m) ==
    IF pattern_type = "pattern1"
    THEN [subpoint_text |-> m.groups[1], point_text |-> m.groups[2],
          article_text |-> m.groups[3], law_name |-> m.groups[4]]
    ELSE [subpoint_text |-> None, point_text |-> None,
          article_text |-> m.groups[1], law_name |-> m.groups[2]]

NoLawId == -1

\* fault model: the lookup without lower()
lookup_without_lower(law_name_to_id, law_name) ==
    IF Strip(law_name) \in DOMAIN law_name_to_id
    THEN law_name_to_id[Strip(law_name)] ELSE NoLawId

\* self.law_name_to_id.get(law_name.lower().strip())
lookup_law_id(law_name_to_id, law_name) ==
    IF Strip(Lower(law_name)) \in DOMAIN law_name_to_id
    THEN law_name_to_id[Strip(Lower(law_name))] ELSE NoLawId

Truthy(str) == str # None /\ Len(str) > 0

\* fault model: the check for a match without article, point or sub-point
\* is left out
nothing_is_useless(article, point, subpoint_text) == FALSE

\* the check that drops a match carrying a law and nothing else
no_useful_information(article, point, subpoint_text) ==
    ~Truthy(article) /\ ~Truthy(point) /\ ~Truthy(subpoint_text)

\* what parse_reference hands back: None, a list of LawLink, or an exception
\* in flight
ReturnNone == [raised |-> FALSE, none |-> TRUE, val |-> <<>>]
ReturnList(links) == [raised |-> FALSE, none |-> FALSE, val |-> links]
RaiseOut == [raised |-> TRUE, none |-> FALSE, val |-> <<>>]

\* one LawLink per article of the multi-article form
article_links(law_id, articles) ==
    ReturnList([j \in 1..Len(articles) |-> LawLink(law_id, articles[j], None, None)])

\* one LawLink per sub-point, unless the sub-point parsing raised
subpoint_links(law_id, article, point, subpoints) ==
    IF subpoints.raised THEN RaiseOut
    ELSE ReturnList([j \in 1..Len(subpoints.val) |->
                       LawLink(law_id, article, point, subpoints.val[j])])

\* parse_reference from the cleaning of the components on
links_of(pattern_type, c, law_id, article, point) ==
    IF no_useful_information(article, point, c.subpoint_text) THEN ReturnNone
    ELSE IF pattern_type = "pattern2" /\ Truthy(c.article_text)
    THEN article_links(law_id, parse_multiple_articles(c.article_text))
    ELSE IF Truthy(c.subpoint_text)
    THEN subpoint_links(law_id, article, point,
                        parse_multiple_components(c.subpoint_text))
    ELSE ReturnList(<<LawLink(law_id, article, point, None)>>)

\* parse_reference from the law lookup on
resolved_links(pattern_type, c, law_id) ==
    IF law_id = NoLawId \/ law_id = 0 THEN ReturnNone
    ELSE links_of(pattern_type, c, law_id,
                  IF Truthy(c.article_text)
                  THEN clean_component(c.article_text) ELSE None,
                  IF Truthy(c.point_text)
                  THEN clean_component(c.point_text) ELSE None)

\* parse_reference once the captures are read
links_of_captures(law_name_to_id, pattern_type, c) ==
    IF ~Truthy(c.law_name) THEN ReturnNone
    ELSE resolved_links(pattern_type, c, lookup_law_id(law_name_to_id, c.law_name))

\* the body of the try block of parse_reference
parse_reference_body(law_name_to_id, m, pattern_type) ==
    IF Len(m.group0) = 0 THEN ReturnNone
    ELSE links_of_captures(law_name_to_id, pattern_type, Captures(pattern_type, m))

\* fault model: parse_reference without its except clause
exception_passed_on(r) == r

\* except Exception: return None
none_on_exception(r) == IF r.raised THEN ReturnNone ELSE r

\* parse_reference: the try block and its except clause
parse_reference(law_name_to_id, m, pattern_type) ==
    none_on_exception(parse_reference_body(law_name_to_id, m, pattern_type))

\* ------------------------------------------------- dedup, sort and filter
Key(ref) == <<ref.law_id, ref.article, ref.point_article, ref.subpoint_article>>

RECURSIVE dedup_from(_, _, _)
dedup_from(references, j, unique_references) ==
    IF j > Len(references) THEN unique_references
    ELSE LET key == Key(references[j])
             seen == {Key(unique_references[n]) : n \in 1..Len(unique_references)}
         IN dedup_from(references, j + 1,
                IF key \notin seen THEN Append(unique_references, references[j])
                ELSE unique_references)

\* the duplicate-removal loop of extract_law_references
remove_duplicates(references) == dedup_from(references, 1, <<>>)

Bit(b) == IF b THEN 1 ELSE 0

\* the sort key, a tuple of three booleans compared lexicographically
specificity(ref) ==
    4 * Bit(ref.subpoint_article # None) + 2 * Bit(ref.point_article # None)
      + Bit(ref.article # None)

RECURSIVE insert_before_equal(_, _)
\* fault model: an unstable sort, ref goes in front of the elements of its key
insert_before_equal(sorted, ref) ==
    IF Len(sorted) = 0 THEN <<ref>>
    ELSE IF specificity(Head(sorted)) > specificity(ref)
    THEN <<Head(sorted)>> \o insert_before_equal(Tail(sorted), ref)
    ELSE <<ref>> \o sorted

RECURSIVE insert_sorted(_, _)
\* put ref behind every element whose key is not smaller
insert_sorted(sorted, ref) ==
    IF Len(sorted) = 0 THEN <<ref>>
    ELSE IF specificity(Head(sorted)) >= specificity(ref)
    THEN <<Head(sorted)>> \o insert_sorted(Tail(sorted), ref)
    ELSE <<ref>> \o sorted

RECURSIVE sort_from(_, _, _)
sort_from(references, j, sorted) ==
    IF j > Len(references) THEN sorted
    ELSE sort_from(references, j + 1, insert_sorted(sorted, references[j]))

\* fault model: the list is filtered in the order it came in
unsorted(references) == references

\* sorted(references, key=..., reverse=True): stable, largest key first
sort_by_specificity(references) == sort_from(references, 1, <<>>)

same_point_and_subpoint(ref, kept_ref) ==
    /\ kept_ref.point_article = ref.point_article
    /\ kept_ref.subpoint_article = ref.subpoint_article

\* fault model: case 2 with the two records in each other's place
covered_by_subpoint_swapped(ref, kept_ref) ==
    /\ kept_ref.point_article = ref.point_article
    /\ ref.subpoint_article # None
    /\ kept_ref.subpoint_article = None

point_covered_by_subpoint(ref, kept_ref) ==
    /\ kept_ref.point_article = ref.point_article
    /\ kept_ref.subpoint_article # None
    /\ ref.subpoint_article = None

\* fault model: case 3 without the test that ref has no point
covered_by_any_point(ref, kept_ref) ==
    /\ kept_ref.point_article # None
    /\ kept_ref.article = ref.article

article_covered_by_point(ref, kept_ref) ==
    /\ kept_ref.point_article # None
    /\ ref.point_article = None
    /\ kept_ref.article = ref.article

RECURSIVE is_redundant(_, _, _)
\* the inner loop over filtered_references, from index j
is_redundant(ref, filtered_references, j) ==
    IF j > Len(filtered_references) THEN FALSE
    ELSE LET kept_ref == filtered_references[j]
         IN IF ref.law_id # kept_ref.law_id
            THEN is_redundant(ref, filtered_references, j + 1)
            ELSE IF ref.article # kept_ref.article
            THEN is_redundant(ref, filtered_references, j + 1)
            ELSE IF same_point_and_subpoint(ref, kept_ref) THEN TRUE
            ELSE IF point_covered_by_subpoint(ref, kept_ref) THEN TRUE
            ELSE IF article_covered_by_point(ref, kept_ref) THEN TRUE
            ELSE is_redundant(ref, filtered_references, j + 1)

RECURSIVE filter_from(_, _, _)
filter_from(sorted_refs, j, filtered_references) ==
    IF j > Len(sorted_refs) THEN filtered_references
    ELSE filter_from(sorted_refs, j + 1,
             IF is_redundant(sorted_refs[j], filtered_references, 1)
             THEN filtered_references
             ELSE Append(filtered_references, sorted_refs[j]))

filter_redundant_references(references) ==
    IF Len(references) = 0 THEN <<>>
    ELSE filter_from(sort_by_specificity(references), 1, <<>>)

\* ------------------------------------------------------------ construction
\* codex_aliases is the dict of the alias file in its iteration order: a
\* sequence of <<law_id, names>> with law_id the key, a string of digits.
RECURSIVE AliasPairs(_)
\* the (law_id, name) pairs in the order the two loops of __init__ visit them
AliasPairs(codex_aliases) ==
    IF Len(codex_aliases) = 0 THEN <<>>
    ELSE LET law_id == Head(codex_aliases)[1]
             names == Head(codex_aliases)[2]
         IN [j \in 1..Len(names) |-> <<law_id, names[j]>>]
            \o AliasPairs(Tail(codex_aliases))

\* fault model: the first value of a key is kept (dict.setdefault)
dict_put_if_absent(index, key, value) ==
    [n \in DOMAIN index \cup {key} |->
        IF n \in DOMAIN index THEN index[n] ELSE value]

\* index[key] = value
dict_put(index, key, value) ==
    [n \in DOMAIN index \cup {key} |-> IF n = key THEN value ELSE index[n]]

RECURSIVE index_from(_, _, _, _)
index_from(morph_fail, pairs, j, index) ==
    IF j > Len(pairs) THEN index
    ELSE index_from(morph_fail, pairs, j + 1,
             dict_put(index, normalize_law_name(morph_fail, pairs[j][2]),
                      StrToInt(pairs[j][1])))

\* self.law_name_to_id after the loops of __init__
build_law_name_to_id(morph_fail, codex_aliases) ==
    index_from(morph_fail, AliasPairs(codex_aliases), 1, <<>>)

\* the normalized names of the pairs, in order
normalized_names(morph_fail, pairs) ==
    [j \in 1..Len(pairs) |-> normalize_law_name(morph_fail, pairs[j][2])]

\* all_law_names after the loops of __init__ (joined by '|' in the source)
build_law_names_pattern(morph_fail, codex_aliases) ==
    normalized_names(morph_fail, AliasPairs(codex_aliases))

\* ------------------------------------------------------------- the inputs
S_pp == <<"p", "p", ".", " ">>
S_p == <<"p", ".", " ">>
S_st == <<"s", "t", ".", " ">>
S_and == <<" ", "i", " ">>
GK_RF == <<"G", "K", " ", "R", "F">>
UK_RF == <<"U", "K", " ", "R", "F">>

\* the alias file of the end-to-end scenarios: {"1": [GK RF], "2": [UK RF]}
ScenarioAliases == << <<<<"1">>, <<GK_RF>>>>, <<<<"2">>, <<UK_RF>>>> >>

\* an alias file with one law, one of whose names is an inflected form
InflectedAliases ==
    << <<<<"1">>, <<GK_RF, <<"K", "o", "d", "e", "k", "s", "a">>>>>> >>

\* the engines of the model: an alias file and the words the lemmatizer
\* fails on
Engines ==
    { <<ScenarioAliases, {}>>,
      <<ScenarioAliases, {<<"R", "F">>}>>,
      <<InflectedAliases, {}>> }

SubpointParts ==
    { <<>>,
      S_pp \o <<"a", " ">>,
      S_pp \o <<"a">> \o S_and \o <<"b", " ">>,
      S_pp \o <<"1", "-", "3", " ">>,
      S_pp \o <<"a", "-", "v", " ">>,
      S_pp \o <<"a", ",", "b", " ">>,
      S_pp \o <<"laquo", "raquo", " ">> }

PointParts ==
    { <<>>,
      S_p \o <<"1", " ">>,
      Word_punkt \o <<" ", "3", " ">> }

ArticleParts ==
    { <<>>,
      S_st \o <<"1", "0", " ">>,
      <<"s", "t", "a", "t", "soft", "i", " ", "1", "5", " ">>,
      S_st \o <<"5", ",", " ", "1", "0">> \o S_and \o <<"1", "5", " ">>,
      S_st \o <<"1", "0", "-", "1", "2", ",", " ", "1", "5", ".", "1", " ">> }

LawParts == {GK_RF, UK_RF, <<"k", "o", "d", "e", "k", "s", "a">>}

\* one citation: sub-points, points, articles, law name
Citations ==
    {sp \o pt \o ar \o law : sp \in SubpointParts, pt \in PointParts,
                             ar \in ArticleParts, law \in LawParts}

\* the citations that texts of several citations are made of
ShortCitations ==
    { S_st \o <<"1", "0", " ">> \o GK_RF,
      S_p \o <<"1", " ">> \o S_st \o <<"1", "0", " ">> \o GK_RF,
      S_pp \o <<"a", " ">> \o S_st \o <<"1", "0", " ">> \o GK_RF,
      S_pp \o <<"a", " ">> \o S_p \o <<"1", " ">> \o S_st \o <<"1", "0", " ">> \o GK_RF,
      S_st \o <<"1", "0", " ">> \o UK_RF,
      S_st \o <<"5", ",", " ", "1", "0">> \o S_and \o <<"1", "5", " ">> \o GK_RF,
      S_st \o <<"1", "5", "NL">> \o GK_RF }

MaxCitations == 2

RECURSIVE Joined(_)
\* the texts of n short citations, separated by ", "
Joined(n) ==
    IF n = 1 THEN ShortCitations
    ELSE {c \o <<",", " ">> \o rest : c \in ShortCitations, rest \in Joined(n - 1)}

\* the texts of the sequential calls
Texts == Citations \cup UNION {Joined(n) : n \in 1..MaxCitations}

\* the texts of the concurrent calls
SharedTexts ==
    { S_st \o <<"1", "0", " ">> \o GK_RF,
      S_p \o <<"1", " ">> \o S_st \o <<"1", "0", " ">> \o UK_RF,
      <<"k", "o", "d", "e", "k", "s", "a">> }

MaxCalls == 3

\* the records of the lists handed to filter_redundant_references directly
Records ==
    { LawLink(law_id, article, point, subpoint) :
        law_id \in {1, 2},
        article \in {None, <<"1", "0">>},
        point \in {None, <<"1">>, <<"2">>},
        subpoint \in {None, <<"a">>} }

MaxRecords == 3

\* "st. 10 GK RF" and elsewhere "p. 1 st. 10 GK RF", in both orders
SubsumedTexts ==
    { S_st \o <<"1", "0", " ">> \o GK_RF \o <<",", " ">>
        \o S_p \o <<"1", " ">> \o S_st \o <<"1", "0", " ">> \o GK_RF,
      S_p \o <<"1", " ">> \o S_st \o <<"1", "0", " ">> \o GK_RF \o <<",", " ">>
        \o S_st \o <<"1", "0", " ">> \o GK_RF }

\* ---------------------------------------------------------------- the state
VARIABLES
    codex_aliases,      \* self.codex_aliases
    morph_fail,         \* the words on which self.morph.parse raises
    law_name_to_id,     \* self.law_name_to_id
    law_names_pattern,  \* self.law_names_pattern, as the list that is joined
    patterns,           \* self.patterns
    call,               \* per caller: where its extract_law_references call is
    budget,             \* calls still to be made
    returned            \* the <<text, result>> of every call that returned

vars == <<codex_aliases, morph_fail, law_name_to_id, law_names_pattern,
          patterns, call, budget, returned>>

engine == <<codex_aliases, morph_fail, law_name_to_id, law_names_pattern,
            patterns>>

NoMatchYet == [pattern_type |-> "", group0 |-> <<>>, groups |-> <<>>]

Idle ==
    [pc |-> "idle", text |-> <<>>, clean_text |-> <<>>, pattern_index |-> 0,
     pos |-> 0, must_advance |-> FALSE, match |-> NoMatchYet,
     law_links |-> ReturnNone, references |-> <<>>, unique_references |-> <<>>,
     result |-> <<>>]

\* LawReferenceParser(codex_aliases), with a lemmatizer failing on fails
Construct(aliases, fails, callers, calls) ==
    /\ codex_aliases = aliases
    /\ morph_fail = fails
    /\ law_name_to_id = build_law_name_to_id(fails, aliases)
    /\ law_names_pattern = build_law_names_pattern(fails, aliases)
    /\ patterns = build_patterns(build_law_names_pattern(fails, aliases))
    /\ call = [t \in callers |-> Idle]
    /\ budget = calls
    /\ returned = {}

Init == \E e \in Engines : Construct(e[1], e[2], {1}, 1)

\* the caller's locals once the text is lemmatized and stripped of controls
started(text, lemmatized_text) ==
    IF lemmatized_text.raised
    THEN [Idle EXCEPT !.pc = "raised", !.text = text]
    ELSE [Idle EXCEPT !.pc = "scan", !.text = text,
                      !.clean_text = strip_control(lemmatized_text.val),
                      !.pattern_index = 1]

\* extract_law_references up to the pattern loop: lemmatize, strip controls
Call(t, texts) ==
    /\ call[t].pc = "idle"
    /\ budget > 0
    /\ budget' = budget - 1
    /\ \E text \in texts :
          call' = [call EXCEPT ![t] =
                     started(text, lemmatize_full_text(morph_fail, text))]
    /\ UNCHANGED <<engine, returned>>

\* the match object as parse_reference reads it
match_object(pattern_type, str, found) ==
    [pattern_type |-> pattern_type,
     group0 |-> Group(str, found, 0),
     groups |-> [g \in 1..Len(found.caps) |-> Group(str, found, g)]]

\* if law_links: references.extend(law_links)
extended(references, law_links) ==
    IF ~law_links.none /\ Len(law_links.val) > 0
    THEN references \o law_links.val ELSE references

\* the locals after parse_reference has handed back law_links for match m
after_parse(c, found, m, law_links) ==
    IF law_links.raised THEN [c EXCEPT !.pc = "raised", !.match = m]
    ELSE [c EXCEPT !.match = m, !.law_links = law_links,
                   !.pos = found.end,
                   !.must_advance = (found.end = found.start),
                   !.references = extended(c.references, law_links)]

\* the locals after the match m of finditer
after_match(c, index, found, m) ==
    after_parse(c, found, m, parse_reference(index, m, m.pattern_type))

\* the locals after finditer's search: the pattern is exhausted, or a match
after_search(c, index, pattern_type, last_pattern, found) ==
    IF ~found.ok
    THEN IF ~last_pattern
         THEN [c EXCEPT !.pattern_index = c.pattern_index + 1,
                        !.pos = 0, !.must_advance = FALSE]
         ELSE [c EXCEPT !.pc = "dedup"]
    ELSE after_match(c, index, found,
                     match_object(pattern_type, c.clean_text, found))

\* fault model: dict.pop in the place of dict.get, the name looked up is
\* taken out of the index
index_after_pop(index, str, found) ==
    IF ~found.ok THEN index
    ELSE [name \in DOMAIN index
                   \ {Strip(Lower(Group(str, found, Len(found.caps))))} |->
            index[name]]

\* self.law_name_to_id after the dict.get of parse_reference: get leaves the
\* dict as it is
index_after_lookup(index, str, found) == index

\* one step of the loops over self.patterns and pattern.finditer: the next
\* match of the current pattern is parsed and its links appended, or the
\* pattern is exhausted and the next one starts
Scan(t) ==
    /\ call[t].pc = "scan"
    /\ call' = [call EXCEPT ![t] =
          after_search(call[t], law_name_to_id,
              patterns[call[t].pattern_index].pattern_type,
              call[t].pattern_index = Len(patterns),
              Search(Regex(patterns[call[t].pattern_index]),
                     call[t].clean_text, call[t].pos, call[t].must_advance))]
    /\ law_name_to_id' =
          index_after_lookup(law_name_to_id, call[t].clean_text,
              Search(Regex(patterns[call[t].pattern_index]),
                     call[t].clean_text, call[t].pos, call[t].must_advance))
    /\ UNCHANGED <<codex_aliases, morph_fail, law_names_pattern, patterns,
                   budget, returned>>

\* the locals after the duplicate removal
deduplicated(c) ==
    [c EXCEPT !.pc = "filter",
              !.unique_references = remove_duplicates(c.references)]

\* the duplicate removal of extract_law_references
Dedup(t) ==
    /\ call[t].pc = "dedup"
    /\ call' = [call EXCEPT ![t] = deduplicated(call[t])]
    /\ UNCHANGED <<engine, budget, returned>>

\* fault model: the list before duplicate removal and filter is returned
unfiltered(c) == [c EXCEPT !.pc = "done", !.result = c.references]

\* the locals at the return: the filtered list is the result
filtered(c) ==
    [c EXCEPT !.pc = "done",
              !.result = filter_redundant_references(c.unique_references)]

\* the redundancy filter, whose list is returned
Filter(t) ==
    /\ call[t].pc = "filter"
    /\ call' = [call EXCEPT ![t] = filtered(call[t])]
    /\ UNCHANGED <<engine, budget, returned>>

\* the caller takes the list
Return(t) ==
    /\ call[t].pc = "done"
    /\ returned' = returned \cup {<<call[t].text, call[t].result>>}
    /\ call' = [call EXCEPT ![t] = Idle]
    /\ UNCHANGED <<engine, budget>>

\* a direct call of filter_redundant_references(references)
CallFilter(t, records, longest) ==
    /\ call[t].pc = "idle"
    /\ budget > 0
    /\ budget' = budget - 1
    /\ \E n \in 0..longest : \E references \in [1..n -> records] :
          call' = [call EXCEPT ![t] =
                     [Idle EXCEPT !.pc = "filter",
                                  !.unique_references = references]]
    /\ UNCHANGED <<engine, returned>>

\* sequential extraction: one call of extract_law_references on an engine
Next ==
    \E t \in DOMAIN call :
        \/ Call(t, Texts)
        \/ Scan(t)
        \/ Dedup(t)
        \/ Filter(t)
        \/ Return(t)

Spec == Init /\ [][Next]_vars

\* the redundancy filter called on any list of records, and reached through
\* the extraction of a text
InitFilter == Construct(ScenarioAliases, {}, {1}, 1)

NextFilter ==
    \E t \in DOMAIN call :
        \/ CallFilter(t, Records, MaxRecords)
        \/ Call(t, SubsumedTexts)
        \/ Scan(t)
        \/ Dedup(t)
        \/ Filter(t)
        \/ Return(t)

SpecFilter == InitFilter /\ [][NextFilter]_vars

\* two callers share one engine; their calls interleave step by step
InitShared == Construct(ScenarioAliases, {}, {1, 2}, MaxCalls)

NextShared ==
    \E t \in DOMAIN call :
        \/ Call(t, SharedTexts)
        \/ Scan(t)
        \/ Dedup(t)
        \/ Filter(t)
        \/ Return(t)

SpecShared == InitShared /\ [][NextShared]_vars

\* ------------------------------------------------ construction at startup
\* the law ids and the names of the alias files the service is started with
LawIds == {<<"1">>, <<"2">>, <<"3">>}

AliasNames ==
    { GK_RF,
      <<"g", "k", " ", "r", "f">>,
      <<"K", "o", "d", "e", "k", "s", "a">>,
      <<"k", "o", "d", "e", "k", "s">> }

\* the words the lemmatizer of the started service may fail on
StartupFailures == {{}, {<<"k", "o", "d", "e", "k", "s", "a">>}}

MaxAliases == 3

\* a JSON object has each key once: the pairs of one law id are adjacent
KeysOnce(pairs) ==
    \A i, j, k \in 1..Len(pairs) :
        (i < j /\ j < k /\ pairs[i][1] = pairs[k][1]) => pairs[j][1] = pairs[i][1]

RECURSIVE AliasFile(_)
\* the alias file whose (law_id, name) pairs are the given ones, in order
AliasFile(pairs) ==
    IF Len(pairs) = 0 THEN <<>>
    ELSE IF Len(pairs) > 1 /\ pairs[2][1] = pairs[1][1]
    THEN << <<pairs[1][1], <<pairs[1][2]>> \o Head(AliasFile(Tail(pairs)))[2]>> >>
         \o Tail(AliasFile(Tail(pairs)))
    ELSE << <<pairs[1][1], <<pairs[1][2]>>>> >> \o AliasFile(Tail(pairs))

\* lifespan before the parser exists: the alias file is loaded
Loaded(aliases, fails) ==
    /\ codex_aliases = aliases
    /\ morph_fail = fails
    /\ law_name_to_id = <<>>
    /\ law_names_pattern = <<>>
    /\ patterns = <<>>
    /\ call = [t \in {1} |-> Idle]
    /\ budget = 0
    /\ returned = {}

InitStartup ==
    \E n \in 1..MaxAliases : \E pairs \in [1..n -> LawIds \X AliasNames] :
        \E fails \in StartupFailures :
            KeysOnce(pairs) /\ Loaded(AliasFile(pairs), fails)

\* app.state.parser = LawReferenceParser(codex_aliases): the whole __init__
Startup ==
    /\ patterns = <<>>
    /\ law_name_to_id' = build_law_name_to_id(morph_fail, codex_aliases)
    /\ law_names_pattern' = build_law_names_pattern(morph_fail, codex_aliases)
    /\ patterns' = build_patterns(build_law_names_pattern(morph_fail, codex_aliases))
    /\ UNCHANGED <<codex_aliases, morph_fail, call, budget, returned>>

NextStartup == Startup

SpecStartup == InitStartup /\ [][NextStartup]_vars

\* ---------------------------------------------------- folding, called twice
\* the pieces the folded texts are made of
FoldParts ==
    { <<"p", "o", "d", "p", "p", ".">>,
      <<"p", "o", "d">>,
      Word_pp,
      <<".">>,
      Word_punkt,
      <<"P", "u", "n", "k", "t">>,
      Word_punt,
      Word_podpunkt,
      Word_stat,
      Word_chast,
      <<"a">>,
      <<" ">> }

MaxParts == 3

\* normalize_text_references(text) was called
folded(text) ==
    [pc |-> "folded", text |-> text,
     normalized_text |-> normalize_text_references(text), again |-> None]

\* a direct call of normalize_text_references(text)
CallFold(t) ==
    /\ call[t].pc = "idle"
    /\ budget > 0
    /\ budget' = budget - 1
    /\ \E n \in 1..MaxParts : \E parts \in [1..n -> FoldParts] :
          call' = [call EXCEPT ![t] = folded(Concat(parts))]
    /\ UNCHANGED <<engine, returned>>

\* normalize_text_references called on what it returned
Refold(t) ==
    /\ call[t].pc = "folded"
    /\ call' = [call EXCEPT ![t] =
                  [call[t] EXCEPT
                     !.pc = "refolded",
                     !.again = normalize_text_references(call[t].normalized_text)]]
    /\ UNCHANGED <<engine, budget, returned>>

InitFold == Construct(ScenarioAliases, {}, {1}, 1)

NextFold == \E t \in DOMAIN call : CallFold(t) \/ Refold(t)

SpecFold == InitFold /\ [][NextFold]_vars

\* ------------------------------------- the filter, called on two orders
\* the records of the lists that are filtered in two orders
PermutedRecords ==
    { LawLink(1, article, point, subpoint) :
        article \in {None, <<"1", "0">>},
        point \in {None, <<"1">>, <<"2">>},
        subpoint \in {None, <<"a">>} }
    \cup {LawLink(2, <<"1", "0">>, <<"1">>, None)}

MaxPermuted == 3

\* no two records of the list have the same key
DistinctKeys(references) ==
    \A i, j \in 1..Len(references) :
        i # j => Key(references[i]) # Key(references[j])

\* filter_redundant_references(permuted) was called after the call on
\* references, which gave result
filtered_again(references, result, permuted) ==
    [pc |-> "permuted", references |-> references, result |-> result,
     permuted |-> permuted,
     permuted_result |-> filter_redundant_references(permuted)]

\* a second direct call of filter_redundant_references, on the records of
\* the first call in another order
CallFilterPermuted(t) ==
    /\ call[t].pc = "done"
    /\ DistinctKeys(call[t].unique_references)
    /\ \E order \in Permutations(1..Len(call[t].unique_references)) :
          call' = [call EXCEPT ![t] =
                     filtered_again(call[t].unique_references, call[t].result,
                                    [i \in 1..Len(call[t].unique_references) |->
                                       call[t].unique_references[order[i]]])]
    /\ UNCHANGED <<engine, budget, returned>>

NextOrder ==
    \E t \in DOMAIN call :
        \/ CallFilter(t, PermutedRecords, MaxPermuted)
        \/ Filter(t)
        \/ CallFilterPermuted(t)

SpecOrder == InitFilter /\ [][NextOrder]_vars

\* ------------------------------------------------------------- properties
Calls == {call[t] : t \in DOMAIN call}

Indices(list) == 1..Len(list)

Present(field) == field # None

\* the records parse_reference handed back for the last match
Emitted(law_links) == IF law_links.none THEN <<>> ELSE law_links.val

\* the law-name capture of a match, lowercased and stripped
LawKey(m) == Strip(Lower(Captures(m.pattern_type, m).law_name))

Resolves(index, key) == key \in DOMAIN index /\ index[key] # 0

\* C1: every record of a returned list has an article, a point or a
\* sub-point, and a text that is a bare law name returns the empty list.
C1_RecordsCarryAComponent ==
    \A c \in Calls :
        c.pc = "done" =>
            /\ \A j \in Indices(c.result) :
                  \/ Present(c.result[j].article)
                  \/ Present(c.result[j].point_article)
                  \/ Present(c.result[j].subpoint_article)
            /\ c.text \in LawParts => c.result = <<>>

\* the text "GK RF" was matched by Pattern 1 as a bare law name and the call
\* returned the empty list
C1_BareLawNameReturned ==
    \E c \in Calls :
        /\ c.pc = "done"
        /\ c.text = GK_RF
        /\ c.match.pattern_type = "pattern1"
        /\ c.match.group0 = Lower(GK_RF)
        /\ c.match.groups[3] = None
        /\ c.result = <<>>

\* C2: no two records at different positions of a returned list have the
\* same (law_id, article, point_article, subpoint_article).
C2_KeysAreDistinct ==
    \A c \in Calls :
        c.pc = "done" =>
            \A i, j \in Indices(c.result) :
                i # j =>
                    <<c.result[i].law_id, c.result[i].article,
                      c.result[i].point_article, c.result[i].subpoint_article>>
                    # <<c.result[j].law_id, c.result[j].article,
                        c.result[j].point_article, c.result[j].subpoint_article>>

\* several patterns produced the same record, and the call returned two or
\* more records
C2_DuplicatesWereProduced ==
    \E c \in Calls :
        /\ c.pc = "done"
        /\ \E i, j \in Indices(c.references) :
              i # j /\ c.references[i] = c.references[j]
        /\ Len(c.result) >= 2

SameLawAndArticle(r1, r2) == r1.law_id = r2.law_id /\ r1.article = r2.article

\* rule (b): same point, r2 has a sub-point and r1 has none
SubsumedByRuleB(r1, r2) ==
    /\ r1.point_article = r2.point_article
    /\ Present(r2.subpoint_article)
    /\ ~Present(r1.subpoint_article)

\* rule (c) as the claim words it: r1 has no point and r2 has a point
SubsumedByRuleC(r1, r2) ==
    ~Present(r1.point_article) /\ Present(r2.point_article)

\* rule (c) for a bare r1: r1 has neither point nor sub-point, r2 has a point
BareSubsumedByRuleC(r1, r2) ==
    /\ ~Present(r1.point_article)
    /\ ~Present(r1.subpoint_article)
    /\ Present(r2.point_article)

Rank(ref) ==
    <<Present(ref.subpoint_article), Present(ref.point_article),
      Present(ref.article)>>

\* FALSE < TRUE
BoolBelow(a, b) == ~a /\ b

\* the lexicographic order of two ranks
RankBelow(x, y) ==
    \/ BoolBelow(x[1], y[1])
    \/ x[1] = y[1] /\ BoolBelow(x[2], y[2])
    \/ x[1] = y[1] /\ x[2] = y[2] /\ BoolBelow(x[3], y[3])

\* the position at which ref was first produced, 0 if it never was
FirstProduced(references, ref) ==
    IF \E n \in Indices(references) : references[n] = ref
    THEN CHOOSE n \in Indices(references) :
            /\ references[n] = ref
            /\ \A k \in 1..(n - 1) : references[k] # ref
    ELSE 0

\* C4: along a returned list the rank never rises, and two records of
\* equal rank are in the order in which they were first produced.
C4_OrderedBySpecificity ==
    \A c \in Calls :
        c.pc = "done" =>
            \A i, j \in Indices(c.result) :
                i < j =>
                    /\ ~RankBelow(Rank(c.result[i]), Rank(c.result[j]))
                    /\ Rank(c.result[i]) = Rank(c.result[j]) =>
                          /\ FirstProduced(c.references, c.result[i]) > 0
                          /\ FirstProduced(c.references, c.result[i])
                               < FirstProduced(c.references, c.result[j])

\* a returned list with two records of one rank and two of different ranks
C4_EqualAndDifferentRanks ==
    \E c \in Calls :
        /\ c.pc = "done"
        /\ \E i, j \in Indices(c.result) :
              i < j /\ Rank(c.result[i]) = Rank(c.result[j])
        /\ \E i, j \in Indices(c.result) :
              i < j /\ RankBelow(Rank(c.result[j]), Rank(c.result[i]))

BareArticle(ref) ==
    /\ Present(ref.article)
    /\ ~Present(ref.point_article)
    /\ ~Present(ref.subpoint_article)

\* C5: a bare-article record is not in the output of
\* filter_redundant_references when the input holds a record of the same law
\* and article with a point; the text citing "st. 10 GK RF" and elsewhere
\* "p. 1 st. 10 GK RF" returns the point-qualified record only.
C5_BareArticleGivesWay ==
    \A c \in Calls :
        c.pc = "done" =>
            /\ \A i, j \in Indices(c.unique_references) :
                  ( /\ BareArticle(c.unique_references[i])
                    /\ SameLawAndArticle(c.unique_references[i],
                                         c.unique_references[j])
                    /\ Present(c.unique_references[j].point_article) )
                  => \A n \in Indices(c.result) :
                        c.result[n] # c.unique_references[i]
            /\ c.text \in SubsumedTexts =>
                  c.result = <<LawLink(1, <<"1", "0">>, <<"1">>, None)>>

\* the filter was called on a bare-article record followed by a record of
\* the same law and article with a point, and gave back the second only
C5_BareArticleFiltered ==
    \E c \in Calls :
        /\ c.pc = "done"
        /\ c.unique_references
             = <<LawLink(1, <<"1", "0">>, None, None),
                 LawLink(1, <<"1", "0">>, <<"2">>, None)>>
        /\ c.result = <<LawLink(1, <<"1", "0">>, <<"2">>, None)>>

\* the characters the claim splits a sub-point capture on
ComponentSeparators == {",", "i", ";"} \cup SpaceChars

RECURSIVE PieceEnd(_, _)
\* the last position of the piece of str that starts at position i
PieceEnd(str, i) ==
    IF i < Len(str) /\ str[i + 1] \notin ComponentSeparators
    THEN PieceEnd(str, i + 1) ELSE i

RECURSIVE PiecesFrom(_, _)
\* the maximal pieces of str without a separator, from position i on
PiecesFrom(str, i) ==
    IF i > Len(str) THEN <<>>
    ELSE IF str[i] \in ComponentSeparators THEN PiecesFrom(str, i + 1)
    ELSE <<SubSeq(str, i, PieceEnd(str, i))>>
         \o PiecesFrom(str, PieceEnd(str, i) + 1)

\* the position of the dash of a digit range "a-b", 0 for any other piece
DashOfRange(piece) ==
    IF \E d \in 2..(Len(piece) - 1) :
          /\ piece[d] = "-"
          /\ \A n \in Indices(piece) : n # d => piece[n] \in Digits
    THEN CHOOSE d \in 2..(Len(piece) - 1) : piece[d] = "-"
    ELSE 0

\* the integers a..b of the range whose dash is at position d
RangeOf(piece, d) ==
    [n \in 1..(StrToInt(SubSeq(piece, d + 1, Len(piece)))
               + 1 - StrToInt(SubSeq(piece, 1, d - 1))) |->
       IntToStr(StrToInt(SubSeq(piece, 1, d - 1)) + n - 1)]

ExpandedPiece(piece, d) == IF d = 0 THEN <<piece>> ELSE RangeOf(piece, d)

\* the components of a sub-point capture as the claim defines them
SubpointComponents(capture) ==
    Concat([n \in Indices(PiecesFrom(capture, 1)) |->
              ExpandedPiece(PiecesFrom(capture, 1)[n],
                            DashOfRange(PiecesFrom(capture, 1)[n]))])

OnePerComponent(law_id, article, point, components) ==
    [n \in Indices(components) |-> LawLink(law_id, article, point, components[n])]

\* C6 as stated: a Pattern 1 match whose law name resolves and whose
\* sub-point capture is present gives one record per component of the
\* capture, in order, each with the law id, the cleaned article and the
\* cleaned point of the match; the components are the pieces between commas,
\* "i", semicolons and whitespace, a digit range replaced by its integers.
C6_OneRecordPerSubpoint ==
    \A c \in Calls :
        ( /\ c.match.pattern_type = "pattern1"
          /\ Present(c.match.groups[1])
          /\ Resolves(law_name_to_id, LawKey(c.match)) )
        => /\ ~c.law_links.none
           /\ c.law_links.val
                = OnePerComponent(law_name_to_id[LawKey(c.match)],
                                  clean_component(c.match.groups[3]),
                                  clean_component(c.match.groups[2]),
                                  SubpointComponents(c.match.groups[1]))

ChainChars == {".", "-", "endash"}

RECURSIVE TokenEnd(_, _)
\* the last position of the article-number token that starts at position i
TokenEnd(str, i) ==
    IF i < Len(str) /\ str[i + 1] \in Digits THEN TokenEnd(str, i + 1)
    ELSE IF i + 1 < Len(str) /\ str[i + 1] \in ChainChars /\ str[i + 2] \in Digits
    THEN TokenEnd(str, i + 2)
    ELSE i

RECURSIVE TokensFrom(_, _)
\* the article-number tokens of str from position i on, left to right
TokensFrom(str, i) ==
    IF i > Len(str) THEN <<>>
    ELSE IF str[i] \notin Digits THEN TokensFrom(str, i + 1)
    ELSE <<SubSeq(str, i, TokenEnd(str, i))>>
         \o TokensFrom(str, TokenEnd(str, i) + 1)

OnePerArticle(law_id, tokens) ==
    [n \in Indices(tokens) |-> LawLink(law_id, tokens[n], None, None)]

\* C7: a Pattern 2 match whose law name resolves gives one record per
\* article-number token of its article capture, left to right, each without
\* point and sub-point.
C7_OneRecordPerArticle ==
    \A c \in Calls :
        ( /\ c.match.pattern_type = "pattern2"
          /\ Resolves(law_name_to_id, LawKey(c.match)) )
        => Emitted(c.law_links)
             = OnePerArticle(law_name_to_id[LawKey(c.match)],
                             TokensFrom(c.match.groups[1], 1))

\* Pattern 2 matched "st. 5, 10 i 15 gk rf" and three records were made
C7_ThreeArticles ==
    \E c \in Calls :
        /\ c.match.pattern_type = "pattern2"
        /\ c.match.groups[1] = <<"5", ",", " ", "1", "0", " ", "i", " ", "1", "5">>
        /\ Emitted(c.law_links)
             = <<LawLink(1, <<"5">>, None, None),
                 LawLink(1, <<"1", "0">>, None, None),
                 LawLink(1, <<"1", "5">>, None, None)>>

EndsWith(str, suffix) ==
    /\ Len(str) >= Len(suffix)
    /\ SubSeq(str, Len(str) - Len(suffix) + 1, Len(str)) = suffix

\* text is one citation of a law whose normalized name the index lacks
CitesUnknownLaw(text) ==
    /\ text \in Citations
    /\ \E law \in LawParts :
          /\ EndsWith(text, law)
          /\ normalize_law_name(morph_fail, law) \notin DOMAIN law_name_to_id

\* C8: the records of a match carry the law id the index holds for the
\* lowercased, stripped law-name capture, a capture that is no key gives no
\* record, and a key resolves: a Pattern 3 match on a key gives its record.
\* Every returned record is one of these, and a citation of a law that the
\* alias table lacks returns the empty list.
C8_LawIdFromIndex ==
    \A c \in Calls :
        /\ c.match.pattern_type # "" =>
              /\ LawKey(c.match) \notin DOMAIN law_name_to_id
                    => Emitted(c.law_links) = <<>>
              /\ \A n \in Indices(Emitted(c.law_links)) :
                    c.law_links.val[n].law_id = law_name_to_id[LawKey(c.match)]
              /\ ( /\ c.match.pattern_type = "pattern3"
                   /\ Resolves(law_name_to_id, LawKey(c.match)) )
                 => Len(Emitted(c.law_links)) = 1
        /\ c.pc = "done" =>
              /\ \A n \in Indices(c.result) :
                    FirstProduced(c.references, c.result[n]) > 0
              /\ CitesUnknownLaw(c.text) => c.result = <<>>

\* the call on "st. 10 UK RF" returned the empty list on the engine whose
\* alias file has no UK RF
C8_UnknownLawReturned ==
    \E c \in Calls :
        /\ c.pc = "done"
        /\ c.text = S_st \o <<"1", "0", " ">> \o UK_RF
        /\ Lower(UK_RF) \notin DOMAIN law_name_to_id
        /\ c.result = <<>>

\* what lemmatize_full_text makes of a token when failures are swallowed
KeptOrLemma(fails, token) ==
    IF \A n \in Indices(token) : token[n] \in WordChars
    THEN IF token \in fails THEN token ELSE normal_form(token)
    ELSE token

TokensKeptOrLemma(fails, tokens) ==
    Concat([n \in Indices(tokens) |-> KeptOrLemma(fails, tokens[n])])

\* the lemmatized text with the words of fails left as they are
ExpectedCleanText(fails, text) ==
    strip_control(
        TokensKeptOrLemma(fails, FindAll(ReToken, normalize_text_references(text))))

JustStarted(c) ==
    c.pc = "scan" /\ c.pattern_index = 1 /\ c.pos = 0 /\ c.match = NoMatchYet

\* the links of a match whose construction gave body
ContributionOf(body) == IF body.raised THEN ReturnNone ELSE body

\* C9: no call ends in an exception; the text that is scanned has the words
\* on which the lemmatizer failed unchanged and every other word lemmatized;
\* a match whose construction failed has no links, every other match has the
\* links of its construction.
C9_FailuresAreSwallowed ==
    \A c \in Calls :
        /\ c.pc # "raised"
        /\ JustStarted(c) => c.clean_text = ExpectedCleanText(morph_fail, c.text)
        /\ c.match.pattern_type # "" =>
              c.law_links
                = ContributionOf(
                      parse_reference_body(law_name_to_id, c.match,
                                           c.match.pattern_type))

HasWordOf(fails, text) ==
    \E n \in Indices(FindAll(ReWord, text)) : FindAll(ReWord, text)[n] \in fails

\* a call returned records although the lemmatizer failed on a word of the
\* text and the construction of the Pattern 1 record failed on the sub-point
\* made of quotation marks
C9_ReturnedDespiteFailures ==
    \E c \in Calls :
        /\ c.pc = "done"
        /\ morph_fail # {}
        /\ \E n \in Indices(c.text) : c.text[n] = "laquo"
        /\ HasWordOf(morph_fail, c.text)
        /\ Len(c.result) >= 1

\* C10: after construction law_name_to_id, law_names_pattern and patterns
\* stay what the constructor made them, whatever calls have run or are under
\* way, and every call on a text has returned the same list.
C10_EngineIsReadOnly ==
    /\ law_name_to_id = build_law_name_to_id(morph_fail, codex_aliases)
    /\ law_names_pattern = build_law_names_pattern(morph_fail, codex_aliases)
    /\ patterns = build_patterns(build_law_names_pattern(morph_fail, codex_aliases))
    /\ \A p, q \in returned : p[1] = q[1] => p[2] = q[2]

\* a call on a text has returned records, and a later call on the same text
\* is done while the other caller is in the middle of its scan
C10_CallsInterleaved ==
    /\ call[1].pc = "done"
    /\ call[2].pc = "scan"
    /\ call[2].pattern_index = 2
    /\ \E p \in returned :
          p[1] = call[1].text /\ p[2] = call[1].result /\ Len(p[2]) >= 1

\* the places of the alias file: <<a, b>> is name b of the a-th law id
AliasPlaces ==
    UNION { {<<a, b>> : b \in Indices(codex_aliases[a][2])} :
              a \in Indices(codex_aliases) }

\* place q comes after place p in the iteration order of the alias file
ComesAfter(p, q) == p[1] < q[1] \/ (p[1] = q[1] /\ p[2] < q[2])

NormalizedAt(p) == normalize_law_name(morph_fail, codex_aliases[p[1]][2][p[2]])

LawIdAt(p) == StrToInt(codex_aliases[p[1]][1])

LastOfItsName(p) ==
    \A q \in AliasPlaces : ComesAfter(p, q) => NormalizedAt(q) # NormalizedAt(p)

Constructed == patterns # <<>>

\* C11: after construction the keys of law_name_to_id are the normalized
\* names of the alias file, and each key maps to the law id of the last
\* (law_id, name) pair, in the iteration order of the file, whose name
\* normalizes to it; a name shared by two law ids maps to the later one.
C11_LastAliasWins ==
    Constructed =>
        /\ DOMAIN law_name_to_id = {NormalizedAt(p) : p \in AliasPlaces}
        /\ \A p \in AliasPlaces :
              LastOfItsName(p) => law_name_to_id[NormalizedAt(p)] = LawIdAt(p)

\* the engine was constructed from a file in which names of two different
\* law ids, one of them an inflected form, have one normalized name, and the
\* index holds the later law id
C11_CollisionOverwritten ==
    /\ Constructed
    /\ \E p, q \in AliasPlaces :
          /\ ComesAfter(p, q)
          /\ LastOfItsName(q)
          /\ NormalizedAt(p) = NormalizedAt(q)
          /\ codex_aliases[p[1]][2][p[2]] = <<"K", "o", "d", "e", "k", "s", "a">>
          /\ codex_aliases[q[1]][2][q[2]] = <<"k", "o", "d", "e", "k", "s">>
          /\ LawIdAt(p) # LawIdAt(q)
          /\ law_name_to_id[NormalizedAt(p)] = LawIdAt(q)

\* some rule of the folding finds a match in str
SomeRuleMatches(str) ==
    \E j \in Indices(replacements) :
        Search(Compile(replacements[j][1], 0, TRUE), str, 0, FALSE).ok

\* C12: normalize_text_references applied to its own result gives that
\* result again, and no rule of the list finds a match in the result of
\* the first application.
C12_FoldingIsIdempotent ==
    \A c \in Calls :
        c.pc = "refolded" =>
            /\ c.again = c.normalized_text
            /\ ~SomeRuleMatches(c.normalized_text)

\* "podpp.Punkta" was folded to "pp.p.", where the second replacement
\* follows the first directly, and folded again
C12_FoldedTwice ==
    \E c \in Calls :
        /\ c.pc = "refolded"
        /\ c.text = <<"p", "o", "d", "p", "p", ".", "P", "u", "n", "k", "t", "a">>
        /\ c.normalized_text = <<"p", "p", ".", "p", ".">>
        /\ c.again = <<"p", "p", ".", "p", ".">>

\* rule (a): r2 has the point and the sub-point of r1
SubsumedByRuleA(r1, r2) ==
    /\ r1.point_article = r2.point_article
    /\ r1.subpoint_article = r2.subpoint_article

\* r2, of the law and article of r1, satisfies rule (a), (b) or (c) against it
SubsumedBy(r1, r2) ==
    /\ SameLawAndArticle(r1, r2)
    /\ \/ SubsumedByRuleA(r1, r2)
       \/ SubsumedByRuleB(r1, r2)
       \/ SubsumedByRuleC(r1, r2)

\* element i of the list stands before element j once the list is sorted by
\* rank, largest first, elements of one rank keeping their order
SortsBefore(references, i, j) ==
    \/ RankBelow(Rank(references[j]), Rank(references[i]))
    \/ Rank(references[i]) = Rank(references[j]) /\ i < j

\* kept[n] is the place in the input of element n of the output: the output
\* is a sub-list of the sorted input
PlacesOfSubList(references, result, kept) ==
    /\ \A n \in Indices(result) : result[n] = references[kept[n]]
    /\ \A m, n \in Indices(result) :
          m < n => SortsBefore(references, kept[m], kept[n])

\* C13: the output of filter_redundant_references is a sub-list of its
\* sorted input; every input record left out has in the output a record of
\* its law and article that satisfies rule (a), (b) or (c) against it; and a
\* record whose law and article no other input record has is in the output.
C13_OnlySubsumedDropped ==
    \A c \in Calls :
        c.pc = "done" =>
            /\ \E kept \in [Indices(c.result) -> Indices(c.unique_references)] :
                  /\ PlacesOfSubList(c.unique_references, c.result, kept)
                  /\ \A i \in Indices(c.unique_references) :
                        (\A n \in Indices(c.result) : kept[n] # i)
                        => \E n \in Indices(c.result) :
                              SubsumedBy(c.unique_references[i], c.result[n])
            /\ \A i \in Indices(c.unique_references) :
                  (\A j \in Indices(c.unique_references) \ {i} :
                      ~SameLawAndArticle(c.unique_references[i],
                                         c.unique_references[j]))
                  => \E n \in Indices(c.result) :
                        c.result[n] = c.unique_references[i]

\* the filter was called on a point-only record, a record of another law
\* and the same point with a sub-point: the first is left out by rule (b),
\* the record of the other law is kept
C13_DroppedAndKept ==
    \E c \in Calls :
        /\ c.pc = "done"
        /\ c.unique_references
             = <<LawLink(1, <<"1", "0">>, <<"1">>, None),
                 LawLink(2, <<"1", "0">>, None, None),
                 LawLink(1, <<"1", "0">>, <<"1">>, <<"a">>)>>
        /\ c.result
             = <<LawLink(1, <<"1", "0">>, <<"1">>, <<"a">>),
                 LawLink(2, <<"1", "0">>, None, None)>>

\* the elements of a list
Elements(list) == {list[n] : n \in Indices(list)}

\* the place of ref in a list that holds it once
PlaceIn(list, ref) == CHOOSE n \in Indices(list) : list[n] = ref

\* two records of different rank are in the same order in both lists
SameOrderAcrossRanks(first, second) ==
    \A i, j \in Indices(first) :
        (i < j /\ Rank(first[i]) # Rank(first[j]))
        => PlaceIn(second, first[i]) < PlaceIn(second, first[j])

\* C14: for a list of records with pairwise distinct keys and any
\* permutation of it, filter_redundant_references returns the same records;
\* the two outputs differ at most in the order of records of equal rank.
C14_OrderDoesNotMatter ==
    \A c \in Calls :
        c.pc = "permuted" =>
            /\ Elements(c.result) = Elements(c.permuted_result)
            /\ Len(c.result) = Len(c.permuted_result)
            /\ SameOrderAcrossRanks(c.result, c.permuted_result)

\* two point records and the bare record of their article were filtered in
\* one order and in the reverse order: the bare record is left out both
\* times and the two point records come out in the order they went in
C14_ReversedList ==
    \E c \in Calls :
        /\ c.pc = "permuted"
        /\ c.references
             = <<LawLink(1, <<"1", "0">>, <<"1">>, None),
                 LawLink(1, <<"1", "0">>, <<"2">>, None),
                 LawLink(1, <<"1", "0">>, None, None)>>
        /\ c.permuted
             = <<LawLink(1, <<"1", "0">>, None, None),
                 LawLink(1, <<"1", "0">>, <<"2">>, None),
                 LawLink(1, <<"1", "0">>, <<"1">>, None)>>
        /\ c.result
             = <<LawLink(1, <<"1", "0">>, <<"1">>, None),
                 LawLink(1, <<"1", "0">>, <<"2">>, None)>>
        /\ c.permuted_result
             = <<LawLink(1, <<"1", "0">>, <<"2">>, None),
                 LawLink(1, <<"1", "0">>, <<"1">>, None)>>

=============================================================================
